---- MODULE Spec2Model ----
(***************************************************************************)
(* The "Save as dbt's Model" dialog of SQL Lab (SaveDataModelModal).       *)
(*                                                                         *)
(* Two copies of the component exist in the sources:                       *)
(*   validated : SqlLab/components/SaveDataModelModal/index.tsx            *)
(*               (regexCheck, isDisabled gate, radio values 1..3)          *)
(*   ungated   : unnamed/part_000                                          *)
(*               (no gate on the Save button, radio values 1..4)           *)
(* One component instance is modelled from its mount on.  Texts are        *)
(* sequences of one-character strings.  The callbacks handed in by the     *)
(* parent are recorded: emitted holds the calls made by the most recent    *)
(* event handler, lastArg the most recent argument of each setter.  The     *)
(* three setters (handleModelName, handleDescription,                      *)
(* handleMaterializationNum) return; the run handler may return any value  *)
(* or raise an exception.                                                  *)
(***************************************************************************)
EXTENDS Integers, Sequences, FiniteSets

VARIABLES
  variant,                  \* which copy of the component is mounted
  allowAsync,               \* prop allowAsync
  query,                    \* [name, description] read through useQueryEditor
  visible,                  \* prop visible, owned by the parent
  label,                    \* useState label
  description,              \* useState description
  isDisabled,               \* useState isDisabled (validated copy only)
  materializationNumRadio,  \* useState materializationNumRadio
  lastArg,                  \* most recent argument each parent setter received
  emitted,                  \* calls made by the most recent event handler
  lastEvent,                \* the most recent event handled
  lastInput,                \* what that event carried: <<text>>, <<k>> or <<>>
  runOutcome                \* how the run handler ended in the most recent event

vars == <<variant, allowAsync, query, visible, label, description, isDisabled,
          materializationNumRadio, lastArg, emitted, lastEvent, lastInput,
          runOutcome>>

----------------------------------------------------------------------------
(* Bounds of the exploration *)

\* every text over CoreChars up to this length is typed
MaxShortLen == 2
\* texts longer than the pattern's maximum, by up to this many characters
MaxOverflow == 1

----------------------------------------------------------------------------
(* Characters and texts *)

Lower == {"a","b","c","d","e","f","g","h","i","j","k","l","m",
          "n","o","p","q","r","s","t","u","v","w","x","y","z"}
Upper == {"A","B","C","D","E","F","G","H","I","J","K","L","M",
          "N","O","P","Q","R","S","T","U","V","W","X","Y","Z"}
Digit == {"0","1","2","3","4","5","6","7","8","9"}

\* the character class [a-zA-Z0-9_]
WordClass == Lower \cup Upper \cup Digit \cup {"_"}

\* {1,63}
RegexMinLen == 1
RegexMaxLen == 63

Rep(c, n) == [i \in 1..n |-> c]

RECURSIVE ClassRun(_, _, _)
\* how many characters of s, from position i on, the greedy quantifier
\* consumes: characters of the class, at most max of them
ClassRun(s, i, max) ==
  IF max = 0 \/ i > Len(s) \/ s[i] \notin WordClass
  THEN 0
  ELSE 1 + ClassRun(s, i + 1, max - 1)

\* the pattern with the quantifier + in place of {1,63}
regexCheckNoUpper(s) ==
  LET n == ClassRun(s, 1, Len(s))
  IN  n >= RegexMinLen /\ n = Len(s)

\* /^[a-zA-Z0-9_]{1,63}$/.test(s): from the start of s the class is matched
\* greedily, at least RegexMinLen and at most RegexMaxLen times, and the
\* match must then stand at the end of s
regexCheck(s) ==
  LET n == ClassRun(s, 1, RegexMaxLen)
  IN  n >= RegexMinLen /\ n = Len(s)

----------------------------------------------------------------------------
(* JavaScript values of the query editor fields *)

Absent == [kind |-> "undefined"]
Str(s) == [kind |-> "string", value |-> s]

Truthy(x) == x.kind = "string" /\ x.value # <<>>

\* a || b
Or(a, b) == IF Truthy(a) THEN a ELSE b

\* t('Undefined'), with the message catalogue of the default locale
Undefined == <<"U","n","d","e","f","i","n","e","d">>

\* the default label with the description tried before the name
defaultLabelDescriptionFirst(q) ==
  Or(q.description, Or(q.name, Str(Undefined))).value

\* const defaultLabel = query.name || query.description || t('Undefined')
defaultLabel(q) == Or(q.name, Or(q.description, Str(Undefined))).value

\* useState<string>(query.description || '')
defaultDescription(q) == Or(q.description, Str(<<>>)).value

\* useState(1)
InitialMaterializationNum == 1

\* useState(true)
InitialIsDisabled == TRUE

----------------------------------------------------------------------------
(* The values the environment supplies *)

Variants == {"validated", "ungated"}

\* characters typed alone: letters, a digit, the underscore, and characters
\* outside the class (space, hyphen, a non-ASCII letter)
SampleChars == {"a", "Z", "7", "_", " ", "-", "U+00E9"}
CoreChars == {"a", "-"}

SeqsUpTo(S, n) == UNION {[1..k -> S] : k \in 0..n}

LabelInputs ==
  SeqsUpTo(CoreChars, MaxShortLen)
    \cup {<<c>> : c \in SampleChars}
    \cup {Rep("a", n) : n \in (RegexMaxLen - 1)..(RegexMaxLen + MaxOverflow)}
    \cup {Append(Rep("a", RegexMaxLen - 1), "-")}

DescriptionInputs == {<<>>, <<"n", "e", "w">>}

QueryNames == {Absent, Str(<<>>), Str(<<"q", "1">>), Str(<<"m", "y", " ", "q">>)}
QueryDescriptions == {Absent, Str(<<>>), Str(<<"d", "_", "1">>)}
Queries == [name : QueryNames, description : QueryDescriptions]

\* what a call of the run handler can do: return (nothing, false, a promise)
\* or raise an exception
RunOutcomes == {"undefined", "false", "promise", "throw"}

Call(fn, arg) == [fn |-> fn, arg |-> arg]

----------------------------------------------------------------------------
(* Mount *)

Init ==
  /\ variant \in Variants
  /\ allowAsync \in BOOLEAN
  /\ query \in Queries
  /\ visible = TRUE
  /\ label = defaultLabel(query)
  /\ description = defaultDescription(query)
  /\ isDisabled = (IF variant = "validated" THEN InitialIsDisabled ELSE FALSE)
  /\ materializationNumRadio = InitialMaterializationNum
  /\ lastArg = [handleModelName |-> <<>>, handleDescription |-> <<>>,
                handleMaterializationNum |-> <<>>]
  /\ emitted = <<>>
  /\ lastEvent = "mount"
  /\ lastInput = <<>>
  /\ runOutcome = "none"

----------------------------------------------------------------------------
(* The Save button *)

\* disabled={isDisabled}; the ungated copy passes no disabled prop
SaveDisabled == variant = "validated" /\ isDisabled

----------------------------------------------------------------------------
(* Event handlers *)

\* the label handler storing the pattern's verdict without the negation
onLabelChangeInverted(v) ==
  /\ label' = v
  /\ lastArg' = [lastArg EXCEPT !.handleModelName = <<v>>]
  /\ isDisabled' = regexCheck(v)
  /\ emitted' = <<Call("handleModelName", <<v>>)>>

\* validated copy: setLabel, handleModelName, setIsDisabled
onLabelChange(v) ==
  /\ label' = v
  /\ lastArg' = [lastArg EXCEPT !.handleModelName = <<v>>]
  /\ isDisabled' = ~regexCheck(v)
  /\ emitted' = <<Call("handleModelName", <<v>>)>>

\* ungated copy: setLabel, handleModelName
onLabelChangeUngated(v) ==
  /\ label' = v
  /\ lastArg' = [lastArg EXCEPT !.handleModelName = <<v>>]
  /\ isDisabled' = isDisabled
  /\ emitted' = <<Call("handleModelName", <<v>>)>>

LabelChange(v) ==
  /\ visible
  /\ \/ variant = "validated" /\ onLabelChange(v)
     \/ variant = "ungated" /\ onLabelChangeUngated(v)
  /\ lastEvent' = "label"
  /\ lastInput' = <<v>>
  /\ runOutcome' = "none"
  /\ UNCHANGED <<variant, allowAsync, query, visible, description,
                 materializationNumRadio>>

\* the description handler with the label handler's gate update copied in
onDescriptionChangeGates(v) ==
  /\ description' = v
  /\ lastArg' = [lastArg EXCEPT !.handleDescription = <<v>>]
  /\ emitted' = <<Call("handleDescription", <<v>>)>>
  /\ isDisabled' = ~regexCheck(v)
  /\ UNCHANGED <<label, materializationNumRadio>>

\* setDescription, handleDescription (the same in both copies)
onDescriptionChange(v) ==
  /\ description' = v
  /\ lastArg' = [lastArg EXCEPT !.handleDescription = <<v>>]
  /\ emitted' = <<Call("handleDescription", <<v>>)>>
  /\ UNCHANGED <<label, isDisabled, materializationNumRadio>>

DescriptionChange(v) ==
  /\ visible
  /\ onDescriptionChange(v)
  /\ lastEvent' = "description"
  /\ lastInput' = <<v>>
  /\ runOutcome' = "none"
  /\ UNCHANGED <<variant, allowAsync, query, visible>>

\* the Radio elements of the group: 1 Table, 2 View, 3 Incremental
RadioValues == 1..3
\* the ungated copy adds 4 Ephemereal
RadioValuesUngated == 1..4

\* the radio handler forwarding the state cell instead of its parameter
handleMaterializationNumRadioStale(k) ==
  /\ lastArg' = [lastArg EXCEPT
                   !.handleMaterializationNum = <<materializationNumRadio>>]
  /\ emitted' = <<Call("handleMaterializationNum", <<materializationNumRadio>>)>>
  /\ materializationNumRadio' = k

\* handleMaterializationNum(k), setMaterializationNumRadio(k) (the same in
\* both copies)
handleMaterializationNumRadio(k) ==
  /\ lastArg' = [lastArg EXCEPT !.handleMaterializationNum = <<k>>]
  /\ emitted' = <<Call("handleMaterializationNum", <<k>>)>>
  /\ materializationNumRadio' = k

\* Radio.Group onChange with the value of one of the group's elements; the
\* handler is modelled for every element, the selected one included
RadioChange(k) ==
  /\ visible
  /\ k \in (IF variant = "validated" THEN RadioValues ELSE RadioValuesUngated)
  /\ handleMaterializationNumRadio(k)
  /\ lastEvent' = "radio"
  /\ lastInput' = <<k>>
  /\ runOutcome' = "none"
  /\ UNCHANGED <<variant, allowAsync, query, visible, label, description,
                 isDisabled>>

\* the dispatcher with both branches passing true
onClickModelAlwaysAsync(allow) ==
  IF allow
  THEN <<Call("runQueryModel", <<TRUE>>)>>
  ELSE <<Call("runQueryModel", <<TRUE>>)>>

\* onClickModel(allowAsync, runQueryModel): the calls it makes
onClickModel(allow) ==
  IF allow
  THEN <<Call("runQueryModel", <<TRUE>>)>>
  ELSE <<Call("runQueryModel", <<FALSE>>)>>

\* the click handler closing the dialog only when the run handler returned
\* something other than false
SaveButtonOnClickInspectsResult(outcome) ==
  /\ runOutcome' = outcome
  /\ IF outcome \in {"throw", "false"}
     THEN /\ emitted' = onClickModel(allowAsync)
          /\ visible' = visible
     ELSE /\ emitted' = onClickModel(allowAsync) \o <<Call("onHide", <<>>)>>
          /\ visible' = FALSE

\* onClick of the Save button: onClickModel(allowAsync, runQueryModel);
\* onHide();  An exception raised by the run handler leaves the arrow
\* function before onHide() is reached.  onHide is the parent's close
\* callback: the parent takes visible back.
SaveButtonOnClick(outcome) ==
  /\ runOutcome' = outcome
  /\ IF outcome = "throw"
     THEN /\ emitted' = onClickModel(allowAsync)
          /\ visible' = visible
     ELSE /\ emitted' = onClickModel(allowAsync) \o <<Call("onHide", <<>>)>>
          /\ visible' = FALSE

ClickSave(outcome) ==
  /\ visible
  /\ ~SaveDisabled
  /\ SaveButtonOnClick(outcome)
  /\ lastEvent' = "submit"
  /\ lastInput' = <<>>
  /\ UNCHANGED <<variant, allowAsync, query, label, description, isDisabled,
                 materializationNumRadio, lastArg>>

\* a dismissal that puts the label and the gate back to their mount values
HideModalResets ==
  /\ visible
  /\ emitted' = <<Call("onHide", <<>>)>>
  /\ visible' = FALSE
  /\ lastEvent' = "hide"
  /\ lastInput' = <<>>
  /\ runOutcome' = "none"
  /\ label' = defaultLabel(query)
  /\ isDisabled' = (IF variant = "validated" THEN InitialIsDisabled ELSE FALSE)
  /\ UNCHANGED <<variant, allowAsync, query, description,
                 materializationNumRadio, lastArg>>

\* StyledModal onHide={onHide}: the modal is dismissed; the component keeps
\* its state cells, onHide is the parent's close callback
HideModal ==
  /\ visible
  /\ emitted' = <<Call("onHide", <<>>)>>
  /\ visible' = FALSE
  /\ lastEvent' = "hide"
  /\ lastInput' = <<>>
  /\ runOutcome' = "none"
  /\ UNCHANGED <<variant, allowAsync, query, label, description, isDisabled,
                 materializationNumRadio, lastArg>>

\* StyledModal show={visible}: the parent passes visible = true again to the
\* same instance; nothing in the component runs on that change
ShowModal ==
  /\ ~visible
  /\ visible' = TRUE
  /\ emitted' = <<>>
  /\ lastEvent' = "show"
  /\ lastInput' = <<>>
  /\ runOutcome' = "none"
  /\ UNCHANGED <<variant, allowAsync, query, label, description, isDisabled,
                 materializationNumRadio, lastArg>>

Next ==
  \/ \E v \in LabelInputs : LabelChange(v)
  \/ \E v \in DescriptionInputs : DescriptionChange(v)
  \/ \E k \in RadioValuesUngated : RadioChange(k)
  \/ \E outcome \in RunOutcomes : ClickSave(outcome)
  \/ HideModal
  \/ ShowModal

Spec == Init /\ [][Next]_vars

----------------------------------------------------------------------------
(* Vocabulary of the properties *)

\* a text of 1 to 63 characters, each an ASCII letter, a digit or underscore
MatchesPattern(s) ==
  /\ Len(s) >= 1
  /\ Len(s) <= 63
  /\ \A i \in 1..Len(s) : s[i] \in Lower \cup Upper \cup Digit \cup {"_"}

Validated == variant = "validated"
SubmitEnabled == ~SaveDisabled

IsCall(c, fn, arg) == c.fn = fn /\ c.arg = arg
CallsTo(fn) == Cardinality({i \in 1..Len(emitted) : emitted[i].fn = fn})

Present(x) == x.kind = "string" /\ Len(x.value) > 0

----------------------------------------------------------------------------
(* C1 *)

Edited == lastArg.handleModelName # <<>>

\* C1 as stated: in every state of the validated dialog, the initial one
\* included, submit is enabled if and only if the current label matches the
\* pattern.
C1_EnabledIffLabelMatches ==
  Validated => (SubmitEnabled <=> MatchesPattern(label))

\* C1 as amended: in every state of the validated dialog reached after at
\* least one label change, submit is enabled if and only if the current
\* label matches the pattern; before the first label change submit is
\* disabled, whatever the default label.
C1_EnabledIffEditedLabelMatches ==
  Validated
    => IF Edited
       THEN SubmitEnabled <=> MatchesPattern(label)
       ELSE ~SubmitEnabled

\* the label was edited to a matching text, and the description, the
\* selection and a close and reopen came after it
C1_Witness ==
  /\ Validated
  /\ Edited
  /\ lastEvent = "show"
  /\ MatchesPattern(label)
  /\ SubmitEnabled
  /\ lastArg.handleDescription # <<>>
  /\ lastArg.handleMaterializationNum # <<>>

----------------------------------------------------------------------------
(* C2 *)

\* C2: right after a label change carrying text s, submit is enabled exactly
\* when s has 1 to 63 characters, all of them ASCII letters, digits or
\* underscores, whatever the label and the flag were before; the label shown
\* is s.
C2_LabelChangeSetsGate ==
  (Validated /\ lastEvent = "label")
    => /\ label = lastInput[1]
       /\ SubmitEnabled <=> MatchesPattern(lastInput[1])

\* a text of exactly 63 matching characters has been typed and submit is on
C2_Witness ==
  /\ Validated
  /\ lastEvent = "label"
  /\ Len(lastInput[1]) = 63
  /\ SubmitEnabled

----------------------------------------------------------------------------
(* C3 *)

\* C3: in both copies of the dialog, the run handler is never invoked while
\* the label shown fails the pattern.
C3_NoRunWithBadLabel ==
  lastEvent = "submit" => MatchesPattern(label)

\* the validated copy alone keeps it
C3_ValidatedOnly ==
  (Validated /\ lastEvent = "submit") => MatchesPattern(label)

----------------------------------------------------------------------------
(* C4 *)

\* C4 as stated: every submit click calls the run handler once with the
\* value of allowAsync and then onHide once, in that order.
C4_RunThenHideAlways ==
  lastEvent = "submit"
    => /\ Len(emitted) = 2
       /\ IsCall(emitted[1], "runQueryModel", <<allowAsync>>)
       /\ IsCall(emitted[2], "onHide", <<>>)

\* C4 as amended: every submit click calls the run handler exactly once,
\* first, with the value of allowAsync; when that call returns, onHide is
\* called exactly once after it; no click calls onHide before the run
\* handler, the run handler twice or onHide twice.
C4_RunThenHide ==
  lastEvent = "submit"
    => /\ Len(emitted) >= 1
       /\ IsCall(emitted[1], "runQueryModel", <<allowAsync>>)
       /\ CallsTo("runQueryModel") = 1
       /\ CallsTo("onHide") <= 1
       /\ runOutcome # "throw"
            => /\ Len(emitted) = 2
               /\ IsCall(emitted[2], "onHide", <<>>)

\* a submit with allowAsync false has run and closed
C4_Witness ==
  /\ lastEvent = "submit"
  /\ ~allowAsync
  /\ runOutcome = "undefined"
  /\ Len(emitted) = 2

----------------------------------------------------------------------------
(* C5 *)

\* C5: selecting option k shows k as the selection and calls
\* handleMaterializationNum with k exactly once, at once; whenever the
\* handler has been called, the selection shown is the argument of its most
\* recent call.
C5_SelectionForwarded ==
  /\ lastEvent = "radio"
       => /\ materializationNumRadio = lastInput[1]
          /\ Len(emitted) = 1
          /\ IsCall(emitted[1], "handleMaterializationNum", <<lastInput[1]>>)
  /\ lastArg.handleMaterializationNum # <<>>
       => lastArg.handleMaterializationNum = <<materializationNumRadio>>

\* option 4 has been selected after another option
C5_Witness ==
  /\ lastEvent = "radio"
  /\ lastInput = <<4>>
  /\ materializationNumRadio = 4
  /\ lastArg.handleMaterializationNum = <<4>>

----------------------------------------------------------------------------
(* C6 *)

\* C6: at mount the label is the query name if there is a non-empty one,
\* otherwise the query description if there is a non-empty one, otherwise
\* "Undefined"; the description is the query description or the empty text;
\* the materialization choice is 1.
C6_InitialValues ==
  lastEvent = "mount"
    => /\ label = (IF Present(query.name) THEN query.name.value
                   ELSE IF Present(query.description)
                        THEN query.description.value
                        ELSE <<"U", "n", "d", "e", "f", "i", "n", "e", "d">>)
       /\ description = (IF Present(query.description)
                         THEN query.description.value
                         ELSE <<>>)
       /\ materializationNumRadio = 1

\* a dialog mounted for a query with a name and a description
C6_Witness ==
  /\ lastEvent = "mount"
  /\ Present(query.name)
  /\ Present(query.description)
  /\ label = query.name.value

----------------------------------------------------------------------------
(* C7 *)

\* C7: a description change with text d sets the description to d, calls
\* handleDescription with d once and nothing else, and leaves the label, the
\* selection, the submit flag and the dialog's visibility as they were.
C7_DescriptionOnly ==
  [][lastEvent' = "description"
       => /\ description' = lastInput'[1]
          /\ Len(emitted') = 1
          /\ IsCall(emitted'[1], "handleDescription", <<lastInput'[1]>>)
          /\ label' = label
          /\ materializationNumRadio' = materializationNumRadio
          /\ isDisabled' = isDisabled
          /\ visible' = visible
          /\ lastArg'.handleModelName = lastArg.handleModelName
          /\ lastArg'.handleMaterializationNum
               = lastArg.handleMaterializationNum]_vars

\* the description has been changed while submit is enabled
C7_Witness ==
  /\ Validated
  /\ lastEvent = "description"
  /\ description = <<"n", "e", "w">>
  /\ SubmitEnabled

----------------------------------------------------------------------------
(* C8 *)

\* C8 as stated: after a submit click the dialog is closed whatever the run
\* handler did, an exception included.
C8_ClosedWhateverTheOutcome ==
  lastEvent = "submit" => (CallsTo("onHide") = 1 /\ ~visible)

\* C8 as amended: after a submit click whose run handler returned, whatever
\* it returned, onHide has been called once and the dialog is closed; when
\* the run handler raised an exception onHide has not been called and the
\* dialog stays open; either way the run handler was called once.
C8_ClosedAfterReturn ==
  lastEvent = "submit"
    => /\ CallsTo("runQueryModel") = 1
       /\ runOutcome \in {"undefined", "false", "promise"}
            => (CallsTo("onHide") = 1 /\ ~visible)
       /\ runOutcome = "throw"
            => (CallsTo("onHide") = 0 /\ visible)

\* the run handler returned false and the dialog closed all the same
C8_Witness ==
  /\ lastEvent = "submit"
  /\ runOutcome = "false"
  /\ ~visible

----------------------------------------------------------------------------
(* C9 *)

\* C9 as stated: when the dialog has been closed and is shown again, the
\* label is the default label again and the submit flag is that of a fresh
\* dialog.
C9_LabelResetOnReopen ==
  lastEvent = "show"
    => /\ label = defaultLabel(query)
       /\ Validated => isDisabled = InitialIsDisabled

\* C9 as amended: closing the dialog (by a submit or by dismissing it) and
\* showing the same instance again leave the label, the description, the
\* selection and the submit flag as they were: the typed label is still
\* shown after the reopen.
C9_LabelKeptAcrossClose ==
  [][lastEvent' \in {"submit", "hide", "show"}
       => /\ label' = label
          /\ isDisabled' = isDisabled
          /\ description' = description
          /\ materializationNumRadio' = materializationNumRadio]_vars

\* the reopened dialog shows a typed label, not the default one, with
\* submit enabled
C9_Witness ==
  /\ Validated
  /\ lastEvent = "show"
  /\ label # defaultLabel(query)
  /\ label = <<"a", "a">>
  /\ ~isDisabled

----------------------------------------------------------------------------
(* C10 *)

\* C10: whenever the run handler is invoked, handleModelName has been called
\* and the argument of its most recent call is the label shown.
C10_ParentKnowsName ==
  lastEvent = "submit" => lastArg.handleModelName = <<label>>

\* the validated copy alone keeps it
C10_ValidatedOnly ==
  (Validated /\ lastEvent = "submit") => lastArg.handleModelName = <<label>>

====
